---- MODULE Spec2Model ----
(***************************************************************************)
(* A model of cli-helpers' Timestamp parser (src/src/lib.rs).              *)
(*                                                                         *)
(* Timestamp::from_str receives a string and tries, in order, the integer  *)
(* epoch strategy (str::parse::<i64>, then Utc.timestamp_opt or            *)
(* Utc.timestamp_millis_opt) and the calendar-string strategy              *)
(* (tz_name_to_offset, then DateTime::parse_from_str with                  *)
(* TIMESTAMP_FMT_EN_US); when both fail it returns                         *)
(* Error::InvalidTimestamp.                                                *)
(*                                                                         *)
(* Strings are sequences of one-character strings.  A 64-bit integer is a  *)
(* record [neg, mag] whose magnitude is a sequence of decimal digits (the  *)
(* values of interest, 10^12 and 2^63, exceed the integers of the model    *)
(* checker).  A DateTime<Utc> is, as in chrono, a date (days since         *)
(* 1970-01-01), a second of the day and a fraction in nanoseconds (a leap  *)
(* second is second 59 with a fraction of 10^9 or more).  An Option is a   *)
(* sequence of length at most one.                                         *)
(***************************************************************************)
EXTENDS Integers, Sequences, FiniteSets, TLC

VARIABLES s, pc, n, unit, epoch, ts, patched, tried, result, prev, calls

vars == <<s, pc, n, unit, epoch, ts, patched, tried, result, prev, calls>>

\* ------------------------------------------------------------- options

None == <<>>

Some(v) == <<v>>

IsSome(o) == Len(o) = 1

Get(o) == o[1]

\* ------------------------------------------------------------- strings

Digits == <<"0", "1", "2", "3", "4", "5", "6", "7", "8", "9">>

IsDigit(c) == \E i \in 1..10 : Digits[i] = c

DigitOf(c) == (CHOOSE i \in 1..10 : Digits[i] = c) - 1

UPPER == <<"A", "B", "C", "D", "E", "F", "G", "H", "I", "J", "K", "L", "M",
           "N", "O", "P", "Q", "R", "S", "T", "U", "V", "W", "X", "Y", "Z">>

LOWER == <<"a", "b", "c", "d", "e", "f", "g", "h", "i", "j", "k", "l", "m",
           "n", "o", "p", "q", "r", "s", "t", "u", "v", "w", "x", "y", "z">>

\* u8::to_ascii_lowercase, as the name scanners of the format parser use it
ToLower(c) == IF \E i \in 1..26 : UPPER[i] = c
              THEN LOWER[CHOOSE i \in 1..26 : UPPER[i] = c]
              ELSE c

StartsWith(str, i, pat) ==
    /\ i + Len(pat) - 1 <= Len(str)
    /\ \A k \in 1..Len(pat) : str[i + k - 1] = pat[k]

Contains(str, pat) == \E i \in 1..Len(str) : StartsWith(str, i, pat)

RECURSIVE ReplaceFrom(_, _, _, _)
\* str::replace: the non-overlapping matches of pat, found left to right
ReplaceFrom(str, i, pat, to) ==
    IF i > Len(str) THEN <<>>
    ELSE IF StartsWith(str, i, pat)
         THEN to \o ReplaceFrom(str, i + Len(pat), pat, to)
         ELSE <<str[i]>> \o ReplaceFrom(str, i + 1, pat, to)

Replace(str, pat, to) == ReplaceFrom(str, 1, pat, to)

\* --------------------------------------------- decimal digit sequences

RECURSIVE StripZeros(_)
StripZeros(d) == IF Len(d) > 1 /\ d[1] = 0 THEN StripZeros(Tail(d)) ELSE d

RECURSIVE LexLess(_, _)
LexLess(a, b) ==
    IF a = <<>> THEN FALSE
    ELSE IF a[1] # b[1] THEN a[1] < b[1]
    ELSE LexLess(Tail(a), Tail(b))

\* a < b for magnitudes without leading zeros
NatLess(a, b) == \/ Len(a) < Len(b)
                 \/ Len(a) = Len(b) /\ LexLess(a, b)

NatLeq(a, b) == a = b \/ NatLess(a, b)

I64_MAX == <<9, 2, 2, 3, 3, 7, 2, 0, 3, 6, 8, 5, 4, 7, 7, 5, 8, 0, 7>>

I64_MIN_MAG == <<9, 2, 2, 3, 3, 7, 2, 0, 3, 6, 8, 5, 4, 7, 7, 5, 8, 0, 8>>

Mk(neg, mag) == [neg |-> neg /\ mag # <<0>>, mag |-> mag]

\* a < b for 64-bit integers
I64Less(a, b) ==
    IF a.neg /\ ~b.neg THEN TRUE
    ELSE IF ~a.neg /\ b.neg THEN FALSE
    ELSE IF a.neg THEN NatLess(b.mag, a.mag)
    ELSE NatLess(a.mag, b.mag)

\* Saturating bound of a quotient kept as an integer of the model
QuotCap == 200000000

RECURSIVE DivModFrom(_, _, _, _, _)
DivModFrom(d, i, by, q, r) ==
    IF i > Len(d) THEN [q |-> q, r |-> r]
    ELSE LET cur == r * 10 + d[i]
             q2 == q * 10 + (cur \div by)
         IN DivModFrom(d, i + 1, by, IF q2 > QuotCap THEN QuotCap ELSE q2, cur % by)

\* magnitude d divided by a small divisor: the quotient (saturating at
\* QuotCap) and the remainder
DivMod(d, by) == DivModFrom(d, 1, by, 0, 0)

\* division rounding toward zero in place of the Euclidean one
DivRemTruncated(x, by) ==
    LET dm == DivMod(x.mag, by)
    IN IF ~x.neg THEN dm ELSE [q |-> -dm.q, r |-> dm.r]

\* i64::div_euclid and i64::rem_euclid by a positive divisor
DivRemEuclid(x, by) ==
    LET dm == DivMod(x.mag, by)
    IN IF ~x.neg THEN dm
       ELSE IF dm.r = 0 THEN [q |-> -dm.q, r |-> 0]
       ELSE [q |-> -(dm.q + 1), r |-> by - dm.r]

\* ------------------------------------------------ str::parse::<i64>()

AllDigits(str) == \A i \in 1..Len(str) : IsDigit(str[i])

DigitSeq(str) == [i \in 1..Len(str) |-> DigitOf(str[i])]

parse_i64(str) ==
    IF str = <<>> THEN None
    ELSE LET signed == str[1] = "-" \/ str[1] = "+"
             neg == str[1] = "-"
             body == IF signed THEN Tail(str) ELSE str
         IN IF body = <<>> \/ ~AllDigits(body) THEN None
            ELSE LET mag == StripZeros(DigitSeq(body))
                 IN IF neg THEN (IF NatLeq(mag, I64_MIN_MAG) THEN Some(Mk(TRUE, mag)) ELSE None)
                    ELSE (IF NatLeq(mag, I64_MAX) THEN Some(Mk(FALSE, mag)) ELSE None)

\* --------------------------------------------------- chrono: instants

\* NaiveDate::MIN (-262143-01-01) and NaiveDate::MAX (+262142-12-31) of
\* chrono 0.4, in days since 1970-01-01
MIN_DAYS == -96465293

MAX_DAYS == 95026236

SECS_PER_DAY == 86400

DateTime(days, secs, frac) == [days |-> days, secs |-> secs, frac |-> frac]

\* timestamp_opt without its range check
timestamp_opt_unchecked(secs, nsecs) ==
    LET dr == DivRemEuclid(secs, SECS_PER_DAY)
    IN Some(DateTime(dr.q, dr.r, nsecs))

\* TimeZone::timestamp_opt(secs, nsecs).single() for Utc
timestamp_opt(secs, nsecs) ==
    LET dr == DivRemEuclid(secs, SECS_PER_DAY)
    IN IF dr.q < MIN_DAYS \/ dr.q > MAX_DAYS THEN None
       ELSE Some(DateTime(dr.q, dr.r, nsecs))

RECURSIVE NatInc(_)
\* magnitude d plus one
NatInc(d) ==
    IF d = <<>> THEN <<1>>
    ELSE IF d[Len(d)] < 9 THEN SubSeq(d, 1, Len(d) - 1) \o <<d[Len(d)] + 1>>
    ELSE NatInc(SubSeq(d, 1, Len(d) - 1)) \o <<0>>

\* magnitude d divided by 1000: quotient (a magnitude) and remainder
DivMod1000(d) ==
    LET p == <<0, 0, 0>> \o d
        k == Len(p)
    IN [q |-> StripZeros(SubSeq(p, 1, k - 3)),
        r |-> p[k - 2] * 100 + p[k - 1] * 10 + p[k]]

\* timestamp_millis_opt with the milliseconds left unscaled
timestamp_millis_opt_unscaled(millis) ==
    LET dm == DivMod1000(millis.mag)
    IN timestamp_opt(Mk(millis.neg, dm.q), dm.r)

\* TimeZone::timestamp_millis_opt(millis).single() for Utc: div_euclid and
\* rem_euclid by 1000, then timestamp_opt(secs, millis * 1_000_000)
timestamp_millis_opt(millis) ==
    LET dm == DivMod1000(millis.mag)
        secs == IF ~millis.neg THEN Mk(FALSE, dm.q)
                ELSE IF dm.r = 0 THEN Mk(TRUE, dm.q)
                ELSE Mk(TRUE, NatInc(dm.q))
        ms == IF millis.neg /\ dm.r # 0 THEN 1000 - dm.r ELSE dm.r
    IN timestamp_opt(secs, ms * 1000000)

\* ------------------------------------------ the integer epoch strategy

\* a cutoff one digit short
S_TO_MS_CUTOFF_short == Mk(FALSE, <<1, 0, 0, 0, 0, 0, 0, 0, 0, 0, 0, 0>>)

S_TO_MS_CUTOFF == Mk(FALSE, <<1, 0, 0, 0, 0, 0, 0, 0, 0, 0, 0, 0, 0>>)

\* the unit the closure of from_str reads timestamp_n in
unit_of(timestamp_n) == IF I64Less(timestamp_n, S_TO_MS_CUTOFF) THEN "s" ELSE "ms"

\* the closure given to and_then
epoch_to_datetime(timestamp_n) ==
    IF unit_of(timestamp_n) = "s"
    THEN timestamp_opt(timestamp_n, 0)
    ELSE timestamp_millis_opt(timestamp_n)

\* ------------------------------------- chrono: the format string parser

\* "%a %b %e %I:%M:%S %p %z %Y" as StrftimeItems reads it
TIMESTAMP_FMT_EN_US ==
    <<"%a", " ", "%b", " ", "%e", " ", "%I", ":", "%M", ":", "%S", " ",
      "%p", " ", "%z", " ", "%Y">>

WEEKDAYS == <<<<"m", "o", "n">>, <<"t", "u", "e">>, <<"w", "e", "d">>,
              <<"t", "h", "u">>, <<"f", "r", "i">>, <<"s", "a", "t">>,
              <<"s", "u", "n">>>>

MONTHS == <<<<"j", "a", "n">>, <<"f", "e", "b">>, <<"m", "a", "r">>,
            <<"a", "p", "r">>, <<"m", "a", "y">>, <<"j", "u", "n">>,
            <<"j", "u", "l">>, <<"a", "u", "g">>, <<"s", "e", "p">>,
            <<"o", "c", "t">>, <<"n", "o", "v">>, <<"d", "e", "c">>>>

\* a scanner's result: the value read and the position after it
Scanned(v, next) == Some([v |-> v, next |-> next])

RECURSIVE TrimStart(_, _)
\* str::trim_start: the first position from i on that holds no space
TrimStart(str, i) ==
    IF i <= Len(str) /\ str[i] = " " THEN TrimStart(str, i + 1) ELSE i

RECURSIVE DigitRun(_, _, _)
\* the number of digits from position i on, at most max
DigitRun(str, i, max) ==
    IF max > 0 /\ i <= Len(str) /\ IsDigit(str[i])
    THEN 1 + DigitRun(str, i + 1, max - 1)
    ELSE 0

RECURSIVE NumberValue(_, _, _, _)
NumberValue(str, i, k, acc) ==
    IF k = 0 THEN acc
    ELSE LET v == acc * 10 + DigitOf(str[i])
         IN NumberValue(str, i + 1, k - 1, IF v > QuotCap THEN QuotCap ELSE v)

\* scan::number(s, 1, max): one to max digits
number(str, i, max) ==
    LET k == DigitRun(str, i, max)
    IN IF k = 0 THEN None ELSE Scanned(NumberValue(str, i, k, 0), i + k)

\* scan::short_weekday and scan::short_month0: three letters, any case,
\* the index (from 0) of the name in names
short_name(str, i, names) ==
    IF i + 2 > Len(str) THEN None
    ELSE LET w == <<ToLower(str[i]), ToLower(str[i + 1]), ToLower(str[i + 2])>>
         IN IF \E k \in 1..Len(names) : names[k] = w
            THEN Scanned((CHOOSE k \in 1..Len(names) : names[k] = w) - 1, i + 3)
            ELSE None

\* the AM/PM marker of %p: 0 for AM, 1 for PM
am_pm(str, i) ==
    IF i + 1 > Len(str) THEN None
    ELSE LET w == <<ToLower(str[i]), ToLower(str[i + 1])>>
         IN IF w = <<"a", "m">> THEN Scanned(0, i + 2)
            ELSE IF w = <<"p", "m">> THEN Scanned(1, i + 2)
            ELSE None

\* scan::colon_or_space: spaces, an optional colon, spaces
colon_or_space(str, i) ==
    LET j == TrimStart(str, i)
    IN IF j <= Len(str) /\ str[j] = ":" THEN TrimStart(str, j + 1) ELSE j

\* scan::timezone_offset for %z: sign, two digits of hours, an optional
\* colon, two digits of minutes below 60; the offset in seconds
timezone_offset(str, i) ==
    IF i > Len(str) \/ ~(str[i] = "+" \/ str[i] = "-") THEN None
    ELSE IF DigitRun(str, i + 1, 2) < 2 THEN None
    ELSE LET hours == NumberValue(str, i + 1, 2, 0)
             j == colon_or_space(str, i + 3)
         IN IF DigitRun(str, j, 2) < 2 THEN None
            ELSE LET minutes == NumberValue(str, j, 2, 0)
                     seconds == hours * 3600 + minutes * 60
                 IN IF minutes > 59 THEN None
                    ELSE Scanned(IF str[i] = "-" THEN -seconds ELSE seconds, j + 2)

\* the signed number of %Y: four digits at most unless a sign leads
year_number(str, i) ==
    IF i <= Len(str) /\ (str[i] = "-" \/ str[i] = "+")
    THEN LET r == number(str, i + 1, Len(str))
         IN IF ~IsSome(r) THEN None
            ELSE Scanned(IF str[i] = "-" THEN -Get(r).v ELSE Get(r).v, Get(r).next)
    ELSE number(str, i, 4)

\* what one item of the format reads at position i: the value and the
\* next position, or None
scan_item(item, str, i) ==
    CASE item = " " -> Scanned(0, TrimStart(str, i))
      [] item = ":" -> IF i <= Len(str) /\ str[i] = ":" THEN Scanned(0, i + 1) ELSE None
      [] item = "%a" -> short_name(str, i, WEEKDAYS)
      [] item = "%b" -> short_name(str, i, MONTHS)
      [] item = "%p" -> am_pm(str, i)
      [] item = "%z" -> timezone_offset(str, TrimStart(str, i))
      [] item = "%Y" -> year_number(str, TrimStart(str, i))
      [] OTHER -> number(str, TrimStart(str, i), 2)

\* the range each Parsed::set_* accepts
in_range(item, v) ==
    CASE item = "%e" -> v >= 1 /\ v <= 31
      [] item = "%I" -> v >= 1 /\ v <= 12
      [] item = "%M" -> v >= 0 /\ v <= 59
      [] item = "%S" -> v >= 0 /\ v <= 60
      [] OTHER -> TRUE

RECURSIVE parse_items(_, _, _, _, _)
\* format::parse: the items in order, each from where the last one ended,
\* and nothing left over; the fields read, by item
parse_items(items, k, str, i, fields) ==
    IF k > Len(items)
    THEN (IF i > Len(str) THEN Some(fields) ELSE None)
    ELSE LET r == scan_item(items[k], str, i)
         IN IF ~IsSome(r) THEN None
            ELSE IF ~in_range(items[k], Get(r).v) THEN None
            ELSE parse_items(items, k + 1, str, Get(r).next,
                             [fields EXCEPT ![items[k]] = Get(r).v])

\* ----------------------------------- chrono: Parsed to DateTime<Utc>

MIN_YEAR == -262143

MAX_YEAR == 262142

UNIX_EPOCH_DAY == 719163

IsLeapYear(y) == y % 4 = 0 /\ (y % 100 # 0 \/ y % 400 = 0)

DaysInMonth(y, m) ==
    IF m = 2 THEN (IF IsLeapYear(y) THEN 29 ELSE 28)
    ELSE IF m \in {4, 6, 9, 11} THEN 30 ELSE 31

RECURSIVE DaysBeforeMonth(_, _)
DaysBeforeMonth(y, m) ==
    IF m = 1 THEN 0 ELSE DaysBeforeMonth(y, m - 1) + DaysInMonth(y, m - 1)

\* NaiveDate::from_ymd_opt, as days since 1970-01-01
from_ymd_opt(y, m, d) ==
    IF y < MIN_YEAR \/ y > MAX_YEAR \/ d < 1 \/ d > DaysInMonth(y, m) THEN None
    ELSE Some(365 * (y - 1) + ((y - 1) \div 4) - ((y - 1) \div 100)
              + ((y - 1) \div 400) + DaysBeforeMonth(y, m) + d - UNIX_EPOCH_DAY)

\* NaiveDate::weekday, counted from Monday = 0
weekday(days) == (days + 3) % 7

\* Parsed::to_datetime, then the conversion into DateTime<Utc>: the date
\* with its weekday verified, the 12-hour clock time (second 60 is a leap
\* second: second 59 and a fraction of 10^9 ns), less the offset
to_datetime(f) ==
    LET date == from_ymd_opt(f["%Y"], f["%b"] + 1, f["%e"])
        hour == f["%p"] * 12 + (f["%I"] % 12)
        second == IF f["%S"] = 60 THEN 59 ELSE f["%S"]
        frac == IF f["%S"] = 60 THEN 1000000000 ELSE 0
        local == hour * 3600 + f["%M"] * 60 + second
        utc == local - f["%z"]
    IN IF ~IsSome(date) THEN None
       ELSE IF weekday(Get(date)) # f["%a"] THEN None
       ELSE IF f["%z"] <= -SECS_PER_DAY \/ f["%z"] >= SECS_PER_DAY THEN None
       ELSE LET days == Get(date) + (utc \div SECS_PER_DAY)
            IN IF days < MIN_DAYS \/ days > MAX_DAYS THEN None
               ELSE Some(DateTime(days, utc % SECS_PER_DAY, frac))

NoFields == [item \in {TIMESTAMP_FMT_EN_US[k] : k \in 1..Len(TIMESTAMP_FMT_EN_US)} |-> 0]

\* DateTime::parse_from_str(str, fmt).ok().map(|timestamp| timestamp.into())
parse_from_str(str, fmt) ==
    LET f == parse_items(fmt, 1, str, 1, NoFields)
    IN IF IsSome(f) THEN to_datetime(Get(f)) ELSE None

\* ------------------------------------ the calendar string strategy

CET == <<"C", "E", "T">>

CEST == <<"C", "E", "S", "T">>

\* both names rewritten to the same offset
tz_name_to_offset_same(input) ==
    Replace(Replace(input, CET, <<"+", "0", "1", "0", "0">>),
            CEST, <<"+", "0", "1", "0", "0">>)

tz_name_to_offset(input) ==
    Replace(Replace(input, CET, <<"+", "0", "1", "0", "0">>),
            CEST, <<"+", "0", "2", "0", "0">>)

\* ------------------------------------------------ the strings parsed

\* Longest run of digits in an integer input (an i64 has at most 19)
MaxDigits == 20

\* Calls of from_str in one run
MaxCalls == 2

Chars(d) == [i \in 1..Len(d) |-> Digits[d[i] + 1]]

\* lead followed by k times fill
Rep(lead, fill, k) == <<lead>> \o [i \in 1..k |-> fill]

Landmarks ==
    { <<0>>, <<5>>, <<0, 0, 7>>,
      <<1, 6, 9, 2, 9, 4, 6, 0, 3, 4>>,
      <<1, 6, 9, 2, 9, 4, 6, 0, 2, 9>>,
      <<1, 6, 9, 2, 9, 4, 6, 0, 3, 4, 6, 3, 2>>,
      <<1, 6, 9, 2, 9, 4, 6, 0, 2, 9, 0, 0, 0>>,
      <<1, 6, 9, 2, 9, 4, 6, 0, 3, 4, 0, 0, 0>>,
      <<8, 6, 3, 9, 9>>, <<8, 6, 4, 0, 0>>,
      <<8, 2, 1, 0, 2, 6, 6, 8, 7, 6, 7, 9, 9, 9, 9, 9>>,
      <<8, 2, 1, 0, 2, 6, 6, 8, 7, 6, 8, 0, 0, 0, 0, 0>>,
      <<8, 3, 3, 4, 6, 0, 1, 3, 1, 5, 2, 0, 0>>,
      <<8, 3, 3, 4, 6, 0, 1, 3, 1, 5, 2, 0, 1>>,
      I64_MAX, I64_MIN_MAG }

IntBodies ==
    {Chars(d) : d \in Landmarks}
    \cup {Chars(Rep(lead, fill, k)) : lead \in {1, 9}, fill \in {0, 9}, k \in 0..(MaxDigits - 1)}

IntInputs == {sign \o b : sign \in {<<>>, <<"-">>, <<"+">>}, b \in IntBodies}

SP == <<" ">>

Dates ==
    { <<"F", "r", "i", " ", "A", "u", "g", " ", "2", "5">>,
      <<"S", "a", "t", " ", "A", "u", "g", " ", "2", "5">>,
      <<"T", "h", "u", " ", "J", "a", "n", " ", " ", "1">>,
      <<"t", "h", "u", " ", "F", "E", "B", " ", "2", "9">>,
      <<"T", "u", "e", " ", "D", "e", "c", " ", "3", "1">> }

Clocks ==
    { <<"0", "8", ":", "4", "7", ":", "0", "9", " ", "A", "M">>,
      <<"1", "2", ":", "3", "0", ":", "0", "0", " ", "A", "M">>,
      <<"1", "1", ":", "5", "9", ":", "6", "0", " ", "P", "M">>,
      <<"1", "1", ":", "3", "0", ":", "0", "0", " ", "p", "m">>,
      <<"1", "3", ":", "0", "0", ":", "0", "0", " ", "P", "M">>,
      <<"0", "8", ":", "4", "7", ":", "1", "4">> }

Zones ==
    { CEST, CET, <<"U", "T", "C">>,
      <<"+", "0", "0", "0", "0">>, <<"+", "0", "1", "0", "0">>,
      <<"+", "0", "2", "0", "0">>, <<"-", "0", "5", "3", "0">>,
      <<"+", "0", "2", ":", "0", "0">> }

Years == { <<"2", "0", "2", "3">>, <<"2", "0", "2", "4">>, <<"1", "9", "7", "0">>,
           <<"1", "9", "6", "9">> }

CalendarInputs ==
    {d \o SP \o c \o SP \o z \o SP \o y : d \in Dates, c \in Clocks, z \in Zones, y \in Years}

Garbage ==
    { <<>>, <<"+">>, <<"-">>, CET, CEST, <<"1", "2", "C", "E", "T">>,
      <<"n", "o", "t", "-", "a", "-", "t", "i", "m", "e", "s", "t", "a", "m", "p">>,
      <<"1", "6", "9", "2", "9", "4", "6", "0", "3", "4", " ">>,
      <<"1", "6", "9", "2", "x">>,
      <<"F", "r", "i", " ", "A", "u", "g", " ", "2", "5", " ", "C", "E", "S", "T">>,
      <<"C", "E", "T", " ", "C", "E", "S", "T", " ", "C", "C", "E", "T">> }

Inputs == IntInputs \cup CalendarInputs \cup Garbage

\* the arguments of the repository's test and their neighbours
TestA == Chars(<<1, 6, 9, 2, 9, 4, 6, 0, 3, 4>>)

TestB == <<"F", "r", "i", " ", "A", "u", "g", " ", "2", "5", " ",
           "0", "8", ":", "4", "7", ":", "0", "9", " ", "A", "M", " ",
           "C", "E", "S", "T", " ", "2", "0", "2", "3">>

TestC == Chars(<<1, 6, 9, 2, 9, 4, 6, 0, 3, 4, 6, 3, 2>>)

LaterInputs ==
    { TestA, TestB, TestC,
      Chars(<<1, 6, 9, 2, 9, 4, 6, 0, 2, 9>>),
      Chars(<<1, 6, 9, 2, 9, 4, 6, 0, 2, 9, 0, 0, 0>>),
      Chars(<<1, 6, 9, 2, 9, 4, 6, 0, 3, 4, 0, 0, 0>>),
      Replace(TestB, CEST, <<"+", "0", "2", "0", "0">>),
      Replace(TestB, CEST, <<"+", "0", "0", "0", "0">>),
      Replace(TestB, CEST, CET),
      <<"-">> \o Chars(Rep(1, 0, 9)),
      <<"-", "5">>, <<"0">>, <<"5">>, <<>> }

\* ------------------------------------------------ Timestamp::from_str

Ok(t) == Some([tag |-> "Ok", ts |-> Some(t), text |-> <<>>])

InvalidTimestamp(str) == Some([tag |-> "InvalidTimestamp", ts |-> None, text |-> str])

Init ==
    /\ s \in Inputs
    /\ pc = "parse"
    /\ n = None
    /\ unit = "-"
    /\ epoch = None
    /\ ts = None
    /\ patched = None
    /\ tried = <<>>
    /\ result = None
    /\ prev = None
    /\ calls = 1

\* s.parse::<i64>().ok()
ParseI64 ==
    /\ pc = "parse"
    /\ n' = parse_i64(s)
    /\ tried' = Append(tried, "integer")
    /\ pc' = "and_then"
    /\ UNCHANGED <<s, unit, epoch, ts, patched, result, prev, calls>>

\* .and_then(..) on None: the closure is not called
AndThenNone ==
    /\ pc = "and_then"
    /\ ~IsSome(n)
    /\ pc' = "or_else"
    /\ UNCHANGED <<s, n, unit, epoch, ts, patched, tried, result, prev, calls>>

\* .and_then(..).map(Timestamp) on Some(timestamp_n)
AndThenSome ==
    /\ pc = "and_then"
    /\ IsSome(n)
    /\ unit' = unit_of(Get(n))
    /\ epoch' = epoch_to_datetime(Get(n))
    /\ ts' = epoch'
    /\ pc' = "or_else"
    /\ UNCHANGED <<s, n, patched, tried, result, prev, calls>>

\* .or(..) in place of .or_else(..): the calendar string strategy runs
\* whatever the integer strategy gave, and its result is dropped
OrElseEager ==
    /\ pc = "or_else"
    /\ IsSome(ts)
    /\ patched' = Some(tz_name_to_offset(s))
    /\ tried' = Append(tried, "calendar")
    /\ pc' = "ok_or_else"
    /\ UNCHANGED <<s, n, unit, epoch, ts, result, prev, calls>>

\* .or_else(..) on Some: the closure is not called
OrElseSome ==
    /\ pc = "or_else"
    /\ IsSome(ts)
    /\ pc' = "ok_or_else"
    /\ UNCHANGED <<s, n, unit, epoch, ts, patched, tried, result, prev, calls>>

\* .or_else(..) on None: the calendar string strategy
OrElseNone ==
    /\ pc = "or_else"
    /\ ~IsSome(ts)
    /\ patched' = Some(tz_name_to_offset(s))
    /\ ts' = parse_from_str(tz_name_to_offset(s), TIMESTAMP_FMT_EN_US)
    /\ tried' = Append(tried, "calendar")
    /\ pc' = "ok_or_else"
    /\ UNCHANGED <<s, n, unit, epoch, result, prev, calls>>

\* .ok_or_else(..) on Some
ReturnOk ==
    /\ pc = "ok_or_else"
    /\ IsSome(ts)
    /\ result' = Ok(Get(ts))
    /\ pc' = "done"
    /\ UNCHANGED <<s, n, unit, epoch, ts, patched, tried, prev, calls>>

\* the error built from the string given to parse_from_str
ReturnErrPatched ==
    /\ pc = "ok_or_else"
    /\ ~IsSome(ts)
    /\ result' = InvalidTimestamp(Get(patched))
    /\ tried' = Append(tried, "error")
    /\ pc' = "done"
    /\ UNCHANGED <<s, n, unit, epoch, ts, patched, prev, calls>>

\* .ok_or_else(|| Error::InvalidTimestamp(s.to_string())) on None
ReturnErr ==
    /\ pc = "ok_or_else"
    /\ ~IsSome(ts)
    /\ result' = InvalidTimestamp(s)
    /\ tried' = Append(tried, "error")
    /\ pc' = "done"
    /\ UNCHANGED <<s, n, unit, epoch, ts, patched, prev, calls>>

\* the next call of from_str, as the argument parser makes one per option
Call ==
    /\ pc = "done"
    /\ calls < MaxCalls
    /\ \E x \in LaterInputs :
        /\ s' = x
        /\ prev' = Some([s |-> s, result |-> result])
    /\ calls' = calls + 1
    /\ pc' = "parse"
    /\ n' = None
    /\ unit' = "-"
    /\ epoch' = None
    /\ ts' = None
    /\ patched' = None
    /\ tried' = <<>>
    /\ result' = None

Next ==
    \/ ParseI64
    \/ AndThenNone
    \/ AndThenSome
    \/ OrElseSome
    \/ OrElseNone
    \/ ReturnOk
    \/ ReturnErr
    \/ Call

Spec == Init /\ [][Next]_vars

\* #[derive(PartialOrd, Ord)] on Timestamp(DateTime<Utc>): the date, then
\* the second of the day, then the fraction
TimestampLess(a, b) ==
    \/ a.days < b.days
    \/ a.days = b.days /\ a.secs < b.secs
    \/ a.days = b.days /\ a.secs = b.secs /\ a.frac < b.frac

\* ------------------------------------------------------- properties

RECURSIVE NatOfInt(_)
\* the decimal digits of a natural number
NatOfInt(k) == IF k < 10 THEN <<k>> ELSE NatOfInt(k \div 10) \o <<k % 10>>

RECURSIVE MulAddFrom(_, _, _, _)
MulAddFrom(d, i, m, carry) ==
    IF i = 0 THEN (IF carry = 0 THEN <<>> ELSE NatOfInt(carry))
    ELSE LET v == d[i] * m + carry
         IN MulAddFrom(d, i - 1, m, v \div 10) \o <<v % 10>>

\* the magnitude d * m + c, for small m and c
MulAdd(d, m, c) == StripZeros(MulAddFrom(d, Len(d), m, c))

\* DateTime::timestamp: whole seconds since the epoch, rounded down
EpochSecs(t) ==
    IF t.days >= 0 THEN Mk(FALSE, MulAdd(NatOfInt(t.days), 86400, t.secs))
    ELSE IF t.secs = 0 THEN Mk(TRUE, MulAdd(NatOfInt(-t.days), 86400, 0))
    ELSE Mk(TRUE, MulAdd(NatOfInt(-t.days - 1), 86400, 86400 - t.secs))

\* DateTime::timestamp_millis, for an instant at or after the epoch
EpochMillis(t) == Mk(FALSE, MulAdd(EpochSecs(t).mag, 1000, t.frac \div 1000000))

TenTo12 == <<1, 0, 0, 0, 0, 0, 0, 0, 0, 0, 0, 0, 0>>

\* the last millisecond chrono represents, +262142-12-31T23:59:59.999
LastMillis == <<8, 2, 1, 0, 2, 6, 6, 8, 7, 6, 7, 9, 9, 9, 9, 9>>

\* the first second chrono represents, -262143-01-01T00:00:00, negated
FirstSecsMag == <<8, 3, 3, 4, 6, 0, 1, 3, 1, 5, 2, 0, 0>>

\* str is the decimal string of a natural number
IsDecimal(str) ==
    /\ str # <<>>
    /\ AllDigits(str)
    /\ StripZeros(DigitSeq(str)) = DigitSeq(str)

Done == pc = "done"

IsOk == IsSome(result) /\ Get(result).tag = "Ok"

Value == Get(Get(result).ts)

\* C1 (as stated): a parsed integer is read as seconds exactly when its
\* absolute value is below 1,000,000,000,000, and as milliseconds
\* otherwise, whatever its sign.
C1_UnitByAbsoluteValue ==
    (IsSome(n) /\ unit # "-") =>
        unit = (IF NatLess(Get(n).mag, TenTo12) THEN "s" ELSE "ms")

\* C2 (as stated): the decimal string of every integer n >= 10^12 parses,
\* and to the instant whose epoch milliseconds are n.
C2_AllMillisRoundTrip ==
    (Done /\ IsDecimal(s) /\ ~NatLess(DigitSeq(s), TenTo12)) =>
        (IsOk /\ EpochMillis(Value).mag = DigitSeq(s))

\* C2 (amended): the decimal string of an integer n with
\* 10^12 <= n <= 8,210,266,876,799,999 (the last millisecond chrono
\* represents) parses to the instant whose epoch milliseconds are n: whole
\* seconds n div 1000 and (n mod 1000) * 1,000,000 ns; the decimal string
\* of a larger n yields InvalidTimestamp.
C2_MillisRoundTripInRange ==
    (Done /\ IsDecimal(s) /\ ~NatLess(DigitSeq(s), TenTo12)) =>
        IF NatLeq(DigitSeq(s), LastMillis)
        THEN /\ IsOk
             /\ unit = "ms"
             /\ EpochMillis(Value).mag = DigitSeq(s)
             /\ EpochSecs(Value).mag = DivMod1000(DigitSeq(s)).q
             /\ Value.frac = DivMod1000(DigitSeq(s)).r * 1000000
             /\ Value.frac <= 999000000
        ELSE result = InvalidTimestamp(s)

C2_Witness ==
    /\ Done
    /\ s = TestC
    /\ IsOk
    /\ Value = DateTime(19594, 24434, 632000000)

\* C3: the decimal string of an integer n with 0 <= n < 10^12 parses to
\* the instant whose epoch seconds are n, with no sub-second part.
C3_SecondsRoundTrip ==
    (Done /\ IsDecimal(s) /\ NatLess(DigitSeq(s), TenTo12)) =>
        /\ IsOk
        /\ EpochSecs(Value) = Mk(FALSE, DigitSeq(s))
        /\ Value.frac = 0

C3_Witness ==
    /\ Done
    /\ s = TestA
    /\ IsOk
    /\ Value = DateTime(19594, 24434, 0)

\* C4: the decimal string of a negative integer n with -10^12 < n < 0
\* parses, without error, to the instant |n| whole seconds before the
\* epoch, with no sub-second part.
C4_NegativeSeconds ==
    (Done /\ Len(s) > 1 /\ s[1] = "-" /\ IsDecimal(Tail(s))
          /\ DigitSeq(Tail(s)) # <<0>> /\ NatLess(DigitSeq(Tail(s)), TenTo12)) =>
        /\ IsOk
        /\ EpochSecs(Value) = Mk(TRUE, DigitSeq(Tail(s)))
        /\ Value.frac = 0

C4_Witness ==
    /\ Done
    /\ s = <<"-", "5">>
    /\ IsOk
    /\ Value = DateTime(-1, 86395, 0)

\* C5: whenever from_str fails, the error is InvalidTimestamp holding the
\* string it was given, not the string the CET/CEST pass produced, and no
\* other kind of error.
C5_ErrorKeepsInput ==
    Done =>
        /\ IsSome(result)
        /\ IsOk <=> IsSome(ts)
        /\ ~IsOk => result = InvalidTimestamp(s)

C5_Witness ==
    /\ Done
    /\ s = <<"1", "2", "C", "E", "T">>
    /\ patched = Some(<<"1", "2", "+", "0", "1", "0", "0">>)
    /\ Get(result).tag = "InvalidTimestamp"
    /\ Get(result).text = s

\* t moved by d seconds, its fraction kept
Shift(t, d) ==
    DateTime(t.days + ((t.secs + d) \div 86400), (t.secs + d) % 86400, t.frac)

RECURSIVE RewriteFrom(_, _)
\* CET and CEST rewritten in one pass over the string
RewriteFrom(str, i) ==
    IF i > Len(str) THEN <<>>
    ELSE IF StartsWith(str, i, CEST)
         THEN <<"+", "0", "2", "0", "0">> \o RewriteFrom(str, i + 4)
    ELSE IF StartsWith(str, i, CET)
         THEN <<"+", "0", "1", "0", "0">> \o RewriteFrom(str, i + 3)
    ELSE <<str[i]>> \o RewriteFrom(str, i + 1)

\* the calendar string with its offset field zone written as +0000
AtUtc(str, zone) == Replace(str, zone, <<"+", "0", "0", "0", "0">>)

\* the instant of a calendar string whose offset field is zone, given
\* that the same reading at +0000 parses: that instant moved back by d
ZoneShifts(zone, d) ==
    (Done /\ s \in CalendarInputs /\ Contains(s, zone)
          /\ IsSome(parse_from_str(AtUtc(s, zone), TIMESTAMP_FMT_EN_US))) =>
        /\ IsOk
        /\ Value = Shift(Get(parse_from_str(AtUtc(s, zone), TIMESTAMP_FMT_EN_US)), -d)

LeapSecond == <<":", "6", "0", " ">>

\* C6 (as stated): a calendar string whose offset field is CEST (CET)
\* parses to the instant 2 hours (1 hour) before the same reading at
\* +0000, with no sub-second part.
C6_ZoneShiftsNoFraction ==
    /\ ZoneShifts(CEST, 7200)
    /\ ZoneShifts(CET, 3600)
    /\ (Done /\ s \in CalendarInputs /\ IsOk /\ (Contains(s, CEST) \/ Contains(s, CET))) =>
          Value.frac = 0

\* C6 (amended): a calendar string whose offset field is CEST (CET)
\* parses to the instant 2 hours (1 hour) before the same reading at
\* +0000; its sub-second part is zero unless the seconds field is 60, a
\* leap second, which is second 59 with 1,000,000,000 ns.  The rewrite
\* reaches every occurrence of CET and of CEST, and doing CET first and
\* CEST second gives what one pass over the string gives.
C6_ZoneShifts ==
    /\ ZoneShifts(CEST, 7200)
    /\ ZoneShifts(CET, 3600)
    /\ (Done /\ s \in CalendarInputs /\ IsOk /\ (Contains(s, CEST) \/ Contains(s, CET))) =>
          Value.frac = (IF Contains(s, LeapSecond) THEN 1000000000 ELSE 0)
    /\ IsSome(patched) =>
          /\ Get(patched) = RewriteFrom(s, 1)
          /\ ~Contains(Get(patched), CET)
          /\ ~Contains(Get(patched), CEST)

C6_Witness ==
    /\ Done
    /\ s = <<"T", "h", "u", " ", "J", "a", "n", " ", " ", "1", " ",
             "1", "2", ":", "3", "0", ":", "0", "0", " ", "A", "M", " ",
             "C", "E", "S", "T", " ", "1", "9", "7", "0">>
    /\ IsOk
    /\ Value = DateTime(-1, 81000, 0)

\* the integer n, read in the unit from_str chose, is outside the
\* instants chrono represents
OutOfRange ==
    /\ IsSome(n)
    /\ \/ unit = "s" /\ Get(n).neg /\ NatLess(FirstSecsMag, Get(n).mag)
       \/ unit = "ms" /\ NatLess(LastMillis, Get(n).mag)

C9_StrategyOrder ==
    /\ tried \in {<<>>, <<"integer">>, <<"integer", "calendar">>,
                  <<"integer", "calendar", "error">>}
    /\ Len(tried) >= 2 => ~IsSome(epoch)
    /\ Len(tried) = 3 => ~IsSome(ts)
    /\ (Done /\ IsSome(epoch)) => result = Ok(Get(epoch))
    /\ (Done /\ ~IsOk) => Len(tried) = 3

C9_Witness ==
    /\ Done
    /\ s = TestB
    /\ tried = <<"integer", "calendar">>
    /\ ~IsSome(epoch)
    /\ IsOk

TestBMillis == <<1, 6, 9, 2, 9, 4, 6, 0, 2, 9, 0, 0, 0>>

\* the instants, in milliseconds since the epoch, of the calendar strings
\* among the later inputs: 08:47:09 on 2023-08-25 at the offset written
CalendarMillis(str) ==
    CASE str = TestB -> TestBMillis
      [] str = Replace(TestB, CEST, <<"+", "0", "2", "0", "0">>) -> TestBMillis
      [] str = Replace(TestB, CEST, CET) -> <<1, 6, 9, 2, 9, 4, 9, 6, 2, 9, 0, 0, 0>>
      [] str = Replace(TestB, CEST, <<"+", "0", "0", "0", "0">>) ->
             <<1, 6, 9, 2, 9, 5, 3, 2, 2, 9, 0, 0, 0>>
      [] OTHER -> <<>>

\* str is the decimal string of a negative integer
IsNegDecimal(str) ==
    /\ Len(str) > 1
    /\ str[1] = "-"
    /\ IsDecimal(Tail(str))
    /\ DigitSeq(Tail(str)) # <<0>>

\* the magnitude of an epoch string, read by its absolute value: seconds
\* below 10^12 and milliseconds from 10^12 on, in milliseconds
MillisByMagnitude(mag) ==
    IF NatLess(mag, TenTo12) THEN MulAdd(mag, 1000, 0) ELSE mag

\* str denotes an instant chrono represents: an epoch string or one of
\* the calendar strings above
HasInstant(str) ==
    \/ CalendarMillis(str) # <<>>
    \/ IsDecimal(str) /\ NatLeq(DigitSeq(str), LastMillis)
    \/ IsNegDecimal(str) /\ NatLeq(DigitSeq(Tail(str)), MulAdd(FirstSecsMag, 1000, 0))

\* the instant str denotes, in milliseconds since the epoch
InstantMillis(str) ==
    IF CalendarMillis(str) # <<>> THEN Mk(FALSE, CalendarMillis(str))
    ELSE IF IsNegDecimal(str) THEN Mk(TRUE, MillisByMagnitude(DigitSeq(Tail(str))))
    ELSE Mk(FALSE, MillisByMagnitude(DigitSeq(str)))

PrevOk == IsSome(prev) /\ IsSome(Get(prev).result) /\ Get(Get(prev).result).tag = "Ok"

PrevValue == Get(Get(Get(prev).result).ts)

\* C10 (as stated): two strings that denote the same instant, as epoch seconds, as
\* epoch milliseconds or as a calendar string at any offset, parse to
\* equal Timestamps, and a string that denotes an earlier instant parses
\* to a smaller Timestamp; "Fri Aug 25 08:47:09 AM CEST 2023" parses
\* equal to "1692946029".
C10_OrderIsInstantOrder ==
    (Done /\ IsSome(prev) /\ HasInstant(Get(prev).s) /\ HasInstant(s)) =>
        /\ PrevOk
        /\ IsOk
        /\ (InstantMillis(Get(prev).s) = InstantMillis(s)) <=> (PrevValue = Value)
        /\ I64Less(InstantMillis(Get(prev).s), InstantMillis(s))
              <=> TimestampLess(PrevValue, Value)
        /\ I64Less(InstantMillis(s), InstantMillis(Get(prev).s))
              <=> TimestampLess(Value, PrevValue)

====
